---- MODULE Spec2Model ----
(***************************************************************************)
(* Model of the EDI comparison views: the positional segment diff of       *)
(* ComparisonView (comparisonData, filteredComparison, diffStats), the     *)
(* flattened diff of AnimatedEDIDiff (diffSegments, stats), its reveal     *)
(* animation (startAnimation, resetAnimation and their timers), the        *)
(* element highlighter (getElementClass, highlightSegmentHTML) and the     *)
(* file list of the Index page (upload, select, remove).                   *)
(*                                                                         *)
(* A JavaScript string is a sequence of one-character strings, so that     *)
(* split, includes, toLowerCase and the regular expressions are computed   *)
(* character by character.  An optional value (x?: T) is None or Some(v).  *)
(***************************************************************************)
EXTENDS Integers, Sequences, FiniteSets, TLC

VARIABLES
    leftFile,             \* prop leftFile?: EDIFile   (None or Some(content))
    rightFile,            \* prop rightFile?: EDIFile
    searchTerm,           \* ComparisonView useState("")
    showOnlyDifferences,  \* ComparisonView useState(false)
    comparisonData,       \* ComparisonView useMemo [leftFile, rightFile]
    filteredComparison,   \* ComparisonView useMemo [comparisonData, searchTerm, showOnlyDifferences]
    diffStats,            \* ComparisonView useMemo [comparisonData]
    diffSegments,         \* AnimatedEDIDiff useState([])
    currentFrame,         \* AnimatedEDIDiff useState(0)
    element,              \* argument of getElementClass
    elementClass,         \* its result (None before the call)
    segment,              \* argument of highlightSegmentHTML
    highlighted,          \* its result (None before the call)
    isAnimating,          \* AnimatedEDIDiff useState(false)
    visible,              \* per mounted .diff-segment node: style.opacity is '1'
    timers,               \* pending setTimeout callbacks, in registration order
    runs,                 \* history: clicks on Play handled so far
    phase,                \* history: what the user last did to the animation
    shown,                \* history: reveal callbacks run since the last Play
    sincePlay,            \* history: milliseconds elapsed since the last Play
    files,                \* Index useState<EDIFile[]>([])
    selectedFiles,        \* Index useState<{left?, right?}>({})
    lastOp                \* history: the handler of Index that ran last

vars == <<leftFile, rightFile, searchTerm, showOnlyDifferences, comparisonData,
          filteredComparison, diffStats, diffSegments, currentFrame,
          element, elementClass, segment, highlighted,
          isAnimating, visible, timers, runs, phase, shown, sincePlay,
          files, selectedFiles, lastOp>>

animVars == <<isAnimating, visible, timers, runs, phase, shown, sincePlay>>

indexVars == <<files, selectedFiles, lastOp>>

viewVars == <<leftFile, rightFile, searchTerm, showOnlyDifferences, comparisonData,
              filteredComparison, diffStats, diffSegments, currentFrame>>

classifyVars == <<element, elementClass>>

highlightVars == <<segment, highlighted>>

-----------------------------------------------------------------------------
(* Optional values and strings *)

None == <<>>

Some(v) == <<v>>

Max(a, b) == IF a >= b THEN a ELSE b

Digits == {"0", "1", "2", "3", "4", "5", "6", "7", "8", "9"}

UpperSeq == <<"A", "B", "C", "D", "E", "F", "G", "H", "I", "J", "K", "L", "M",
              "N", "O", "P", "Q", "R", "S", "T", "U", "V", "W", "X", "Y", "Z">>

LowerSeq == <<"a", "b", "c", "d", "e", "f", "g", "h", "i", "j", "k", "l", "m",
              "n", "o", "p", "q", "r", "s", "t", "u", "v", "w", "x", "y", "z">>

Upper == {UpperSeq[i] : i \in 1..Len(UpperSeq)}

\* String.prototype.toLowerCase, one character
ToLowerChar(c) ==
    IF c \in Upper
    THEN LowerSeq[CHOOSE i \in 1..Len(UpperSeq) : UpperSeq[i] = c]
    ELSE c

\* String.prototype.toLowerCase
toLowerCase(s) == [i \in 1..Len(s) |-> ToLowerChar(s[i])]

\* String.prototype.includes
includes(hay, needle) ==
    \E k \in 0..(Len(hay) - Len(needle)) :
        SubSeq(hay, k + 1, k + Len(needle)) = needle

\* String.prototype.split(/[\*~]/): cut at every delimiter, empty tokens kept
RECURSIVE SplitLoop(_, _, _, _)
SplitLoop(s, i, cur, acc) ==
    IF i > Len(s) THEN Append(acc, cur)
    ELSE IF s[i] \in {"*", "~"}
         THEN SplitLoop(s, i + 1, <<>>, Append(acc, cur))
         ELSE SplitLoop(s, i + 1, Append(cur, s[i]), acc)

split(s) == SplitLoop(s, 1, <<>>, <<>>)

-----------------------------------------------------------------------------
(* The segment parser (utils/ediParser, an external collaborator): a file's *)
(* content is held as the list of its segments' raw texts.                  *)

parseEDIContent(content) ==
    [segments |->
        [i \in 1..Len(content) |->
            [tag |-> Head(split(content[i])), raw |-> content[i], lineNumber |-> i]]]

SegAtMutantCountedFromOne(segments, i) ==
    IF 1 <= i /\ i <= Len(segments) THEN Some(segments[i]) ELSE None

\* segments[i] of a JavaScript array, i counted from 0: undefined out of range
SegAt(segments, i) ==
    IF i + 1 <= Len(segments) THEN Some(segments[i + 1]) ELSE None

-----------------------------------------------------------------------------
(* ComparisonView: comparisonData *)

DiffTypeOfMutantNoModified(leftSegment, rightSegment) ==
    IF leftSegment = None /\ rightSegment # None THEN "added"
    ELSE IF leftSegment # None /\ rightSegment = None THEN "removed"
    ELSE "unchanged"

DiffTypeOf(leftSegment, rightSegment) ==
    IF leftSegment = None /\ rightSegment # None THEN "added"
    ELSE IF leftSegment # None /\ rightSegment = None THEN "removed"
    ELSE IF leftSegment # None /\ rightSegment # None
         THEN IF leftSegment[1].raw # rightSegment[1].raw
              THEN "modified" ELSE "unchanged"
         ELSE "unchanged"

\* leftSegment?.lineNumber
LineNumberOf(seg) == IF seg = None THEN None ELSE Some(seg[1].lineNumber)

ComparisonLineMutantSwapped(leftSegment, rightSegment) ==
    [leftSegment     |-> rightSegment,
     rightSegment    |-> leftSegment,
     diffType        |-> DiffTypeOf(leftSegment, rightSegment),
     leftLineNumber  |-> LineNumberOf(leftSegment),
     rightLineNumber |-> LineNumberOf(rightSegment)]

ComparisonLine(leftSegment, rightSegment) ==
    [leftSegment     |-> leftSegment,
     rightSegment    |-> rightSegment,
     diffType        |-> DiffTypeOf(leftSegment, rightSegment),
     leftLineNumber  |-> LineNumberOf(leftSegment),
     rightLineNumber |-> LineNumberOf(rightSegment)]

RECURSIVE ComparisonLoop(_, _, _, _, _)
ComparisonLoop(leftSegs, rightSegs, i, maxLength, comparison) ==
    IF i < maxLength
    THEN ComparisonLoop(leftSegs, rightSegs, i + 1, maxLength,
             Append(comparison,
                    ComparisonLine(SegAt(leftSegs, i), SegAt(rightSegs, i))))
    ELSE comparison

MaxLengthMutantMin(leftSegs, rightSegs) ==
    IF Len(leftSegs) <= Len(rightSegs) THEN Len(leftSegs) ELSE Len(rightSegs)

MaxLength(leftSegs, rightSegs) == Max(Len(leftSegs), Len(rightSegs))

\* The loop over the two parsed files (leftData, rightData)
CompareParsed(leftData, rightData) ==
    ComparisonLoop(leftData.segments, rightData.segments, 0,
                   MaxLength(leftData.segments, rightData.segments), <<>>)

ComparisonData(lf, rf) ==
    IF lf = None \/ rf = None THEN <<>>
    ELSE CompareParsed(parseEDIContent(lf[1]), parseEDIContent(rf[1]))

-----------------------------------------------------------------------------
(* ComparisonView: filteredComparison *)

\* line.leftSegment?.raw.toLowerCase().includes(searchTerm.toLowerCase()):
\* undefined (falsy) when the segment is absent
RawIncludes(seg, term) ==
    seg # None /\ includes(toLowerCase(seg[1].raw), toLowerCase(term))

TagIncludes(seg, term) ==
    seg # None /\ includes(toLowerCase(seg[1].tag), toLowerCase(term))

SearchMatchesMutantCaseSensitive(line, term) ==
    \/ (line.leftSegment # None /\ includes(line.leftSegment[1].raw, term))
    \/ (line.rightSegment # None /\ includes(line.rightSegment[1].raw, term))
    \/ (line.leftSegment # None /\ includes(line.leftSegment[1].tag, term))
    \/ (line.rightSegment # None /\ includes(line.rightSegment[1].tag, term))

SearchMatches(line, term) ==
    \/ RawIncludes(line.leftSegment, term)
    \/ RawIncludes(line.rightSegment, term)
    \/ TagIncludes(line.leftSegment, term)
    \/ TagIncludes(line.rightSegment, term)

IsDifferenceMutantKeepAll(line) == TRUE

IsDifference(line) == line.diffType # "unchanged"

FilteredComparison(comparison, term, onlyDifferences) ==
    LET Matches(line) == SearchMatches(line, term)
        filtered1 == IF onlyDifferences
                     THEN SelectSeq(comparison, IsDifference)
                     ELSE comparison
    IN  IF term # <<>> THEN SelectSeq(filtered1, Matches) ELSE filtered1

-----------------------------------------------------------------------------
(* ComparisonView: diffStats *)

ZeroStats == [added |-> 0, removed |-> 0, modified |-> 0, unchanged |-> 0]

CountLineMutantSkipUnchanged(stats, line) ==
    IF line.diffType = "unchanged" THEN stats
    ELSE [stats EXCEPT ![line.diffType] = @ + 1]

\* stats[line.diffType]++
CountLine(stats, line) == [stats EXCEPT ![line.diffType] = @ + 1]

RECURSIVE TallyLoop(_, _, _)
TallyLoop(comparison, i, stats) ==
    IF i > Len(comparison) THEN stats
    ELSE TallyLoop(comparison, i + 1, CountLine(stats, comparison[i]))

DiffStats(comparison) == TallyLoop(comparison, 1, ZeroStats)

-----------------------------------------------------------------------------
(* AnimatedEDIDiff: the diff calculation effect and the statistics *)

DiffEntryMutantTagAsContent(leftSeg, rightSeg, i) ==
    IF leftSeg = None /\ rightSeg # None
    THEN <<[type |-> "added",
            rightTag |-> rightSeg[1].tag, rightContent |-> rightSeg[1].tag,
            index |-> i]>>
    ELSE IF leftSeg # None /\ rightSeg = None
    THEN <<[type |-> "removed",
            leftTag |-> leftSeg[1].tag, leftContent |-> leftSeg[1].tag,
            index |-> i]>>
    ELSE IF leftSeg # None /\ rightSeg # None
    THEN <<[type |-> IF leftSeg[1].raw = rightSeg[1].raw
                     THEN "unchanged" ELSE "modified",
            leftTag |-> leftSeg[1].tag, rightTag |-> rightSeg[1].tag,
            leftContent |-> leftSeg[1].tag, rightContent |-> rightSeg[1].tag,
            index |-> i]>>
    ELSE <<>>

\* One pass of the loop body: the entry pushed for index i, or none
DiffEntry(leftSeg, rightSeg, i) ==
    IF leftSeg = None /\ rightSeg # None
    THEN <<[type |-> "added",
            rightTag |-> rightSeg[1].tag, rightContent |-> rightSeg[1].raw,
            index |-> i]>>
    ELSE IF leftSeg # None /\ rightSeg = None
    THEN <<[type |-> "removed",
            leftTag |-> leftSeg[1].tag, leftContent |-> leftSeg[1].raw,
            index |-> i]>>
    ELSE IF leftSeg # None /\ rightSeg # None
    THEN IF leftSeg[1].raw = rightSeg[1].raw
         THEN <<[type |-> "unchanged",
                 leftTag |-> leftSeg[1].tag, rightTag |-> rightSeg[1].tag,
                 leftContent |-> leftSeg[1].raw, rightContent |-> rightSeg[1].raw,
                 index |-> i]>>
         ELSE <<[type |-> "modified",
                 leftTag |-> leftSeg[1].tag, rightTag |-> rightSeg[1].tag,
                 leftContent |-> leftSeg[1].raw, rightContent |-> rightSeg[1].raw,
                 index |-> i]>>
    ELSE <<>>

RECURSIVE DiffLoop(_, _, _, _, _)
DiffLoop(leftSegs, rightSegs, i, maxLength, diffs) ==
    IF i < maxLength
    THEN DiffLoop(leftSegs, rightSegs, i + 1, maxLength,
                  diffs \o DiffEntry(SegAt(leftSegs, i), SegAt(rightSegs, i), i))
    ELSE diffs

\* The loop over the two parsed files (leftParsed, rightParsed)
DiffParsed(leftParsed, rightParsed) ==
    DiffLoop(leftParsed.segments, rightParsed.segments, 0,
             Max(Len(leftParsed.segments), Len(rightParsed.segments)), <<>>)

DiffSegments(lf, rf) ==
    IF lf = None \/ rf = None THEN <<>>
    ELSE DiffParsed(parseEDIContent(lf[1]), parseEDIContent(rf[1]))

CountType(diffs, t) == Len(SelectSeq(diffs, LAMBDA d : d.type = t))

AnimStats(diffs) ==
    [total     |-> Len(diffs),
     added     |-> CountType(diffs, "added"),
     removed   |-> CountType(diffs, "removed"),
     modified  |-> CountType(diffs, "modified"),
     unchanged |-> CountType(diffs, "unchanged")]

-----------------------------------------------------------------------------
(* AnimatedEDIDiff: the reveal animation.  A pending setTimeout callback is  *)
(* a record: the run (click on Play) that registered it, its kind, the index *)
(* of forEach, whether index === segments.length - 1, whether the node it    *)
(* captured is still mounted, and the milliseconds left before it is due.    *)

StaggerMs == 50

CompleteMs == 300

RevealTimer(run, index, n) ==
    [run |-> run, kind |-> "reveal", index |-> index, last |-> (index = n - 1),
     live |-> TRUE, due |-> index * StaggerMs]

DoneTimer(run, index) ==
    [run |-> run, kind |-> "done", index |-> index, last |-> TRUE,
     live |-> TRUE, due |-> CompleteMs]

\* segments.forEach((segment, index) => setTimeout(..., index * 50)) over the
\* n nodes found by querySelectorAll('.diff-segment')
RevealTimers(run, n) == [k \in 1..n |-> RevealTimer(run, k - 1, n)]

RemoveAt(s, j) == [k \in 1..(Len(s) - 1) |-> IF k < j THEN s[k] ELSE s[k + 1]]

\* A timer is run when it is due and no timer registered before it is due
IsDue(ts, j) ==
    /\ ts[j].due = 0
    /\ \A k \in 1..(j - 1) : ts[k].due # 0

NoneDue(ts) == \A j \in 1..Len(ts) : ts[j].due # 0

Elapse(ts, ms) == [j \in 1..Len(ts) |-> [ts[j] EXCEPT !.due = @ - ms]]

\* segment.style.opacity = '1' on the captured node
Reveal(vis, timer) ==
    IF timer.live /\ timer.index + 1 <= Len(vis)
    THEN [vis EXCEPT ![timer.index + 1] = TRUE]
    ELSE vis

\* segment.style.opacity = '0' on every mounted node
HideAll(vis) == [i \in 1..Len(vis) |-> FALSE]

\* The nodes after a render of n entries: diffSegments.map with key={index}
\* keeps the node of an index that is still rendered, with the style the
\* callbacks gave it, and mounts a new node at opacity 0 for a new index;
\* without the two files the container is not rendered
Rendered(vis, n) == [i \in 1..n |-> IF i <= Len(vis) THEN vis[i] ELSE FALSE]

\* The callbacks keep the node they captured: it is no longer in the
\* document when its index is not rendered any more
Detach(ts, n) ==
    [j \in 1..Len(ts) |-> [ts[j] EXCEPT !.live = @ /\ ts[j].index + 1 <= n]]

-----------------------------------------------------------------------------
(* Index: the uploaded files and the two selected files.  An EDIFile is a    *)
(* record of its id and content; selectedFiles.left and .right are optional. *)

\* setFiles(prev => [...prev, ...newFiles])
UploadFiles(prev, newFiles) == prev \o newFiles

\* setSelectedFiles(prev => ({...prev, [position]: file}))
SelectFile(prev, file, position) == [prev EXCEPT ![position] = Some(file)]

\* setFiles(prev => prev.filter(f => f.id !== fileId))
FilterFiles(prev, fileId) == SelectSeq(prev, LAMBDA f : f.id # fileId)

\* if (updated[position]?.id === fileId) delete updated[position]
DeleteIfSelected(selected, fileId) ==
    IF selected # None /\ selected[1].id = fileId THEN None ELSE selected

RemoveSelectedMutantLeftOnly(prev, fileId) ==
    [left  |-> DeleteIfSelected(prev.left, fileId),
     right |-> prev.right]

\* setSelectedFiles(prev => { ...delete updated.left / updated.right... })
RemoveSelected(prev, fileId) ==
    [left  |-> DeleteIfSelected(prev.left, fileId),
     right |-> DeleteIfSelected(prev.right, fileId)]

-----------------------------------------------------------------------------
(* The colours the two views give to a diff type.  A colour is the Tailwind *)
(* colour family of the class name (text-blue-500 is "blue").               *)

DiffTypes == {"added", "removed", "modified", "unchanged"}

\* AnimatedEDIDiff getDiffIcon: the colour of the icon
getDiffIcon(type) ==
    CASE type = "added" -> "blue"
      [] type = "removed" -> "red"
      [] type = "modified" -> "amber"
      [] OTHER -> "green"

\* AnimatedEDIDiff getDiffColor: the colour of the entry's background and border
getDiffColor(type) ==
    CASE type = "added" -> "blue"
      [] type = "removed" -> "red"
      [] type = "modified" -> "amber"
      [] OTHER -> "green"

\* AnimatedEDIDiff: the colour of the statistics badge of a type
StatBadgeColor(type) ==
    CASE type = "added" -> "blue"
      [] type = "removed" -> "red"
      [] type = "modified" -> "amber"
      [] type = "unchanged" -> "green"

\* ComparisonView: the colour of the dot before a diffStats counter
StatLegendColor(type) ==
    CASE type = "added" -> "green"
      [] type = "removed" -> "red"
      [] type = "modified" -> "yellow"
      [] type = "unchanged" -> "gray"

-----------------------------------------------------------------------------
(* ComparisonView: getElementClass and highlightSegmentHTML *)

\* Number of consecutive characters of s from position i on that match \d
RECURSIVE DigitRun(_, _)
DigitRun(s, i) ==
    IF i <= Len(s) /\ s[i] \in Digits THEN 1 + DigitRun(s, i + 1) ELSE 0

\* /^\d{n}$/.test(s)
MatchesDigitsExactly(s, n) == Len(s) = n /\ DigitRun(s, 1) = n

\* /^\d+(\.\d+)?$/.test(s)
MatchesNumber(s) ==
    LET n1 == DigitRun(s, 1) IN
    /\ n1 >= 1
    /\ \/ n1 = Len(s)
       \/ /\ n1 < Len(s)
          /\ s[n1 + 1] = "."
          /\ LET n2 == DigitRun(s, n1 + 2) IN n2 >= 1 /\ n1 + 1 + n2 = Len(s)

MatchesQualifierCharsMutantAnyCase(s) ==
    /\ Len(s) >= 1
    /\ \A i \in 1..Len(s) :
          \/ s[i] \in Upper
          \/ s[i] \in {LowerSeq[k] : k \in 1..Len(LowerSeq)}
          \/ s[i] \in Digits

\* /^[A-Z0-9]+$/.test(s)
MatchesQualifierChars(s) ==
    /\ Len(s) >= 1
    /\ \A i \in 1..Len(s) : s[i] \in Upper \/ s[i] \in Digits

DateLength8 == 8

DateLength6 == 6

QualifierMaxLength == 3

getElementClassMutantNumberFirst(e) ==
    IF MatchesNumber(e) THEN "edi-number"
    ELSE IF MatchesDigitsExactly(e, DateLength8) \/ MatchesDigitsExactly(e, DateLength6)
    THEN "edi-date"
    ELSE IF Len(e) <= QualifierMaxLength /\ MatchesQualifierChars(e)
    THEN "edi-qualifier"
    ELSE "edi-element"

getElementClass(e) ==
    IF MatchesDigitsExactly(e, DateLength8) \/ MatchesDigitsExactly(e, DateLength6)
    THEN "edi-date"
    ELSE IF MatchesNumber(e) THEN "edi-number"
    ELSE IF Len(e) <= QualifierMaxLength /\ MatchesQualifierChars(e)
    THEN "edi-qualifier"
    ELSE "edi-element"

Span(class, text) == [class |-> class, text |-> text]

HighlightElementMutantNoIdentifier(e, index) ==
    <<Span("edi-separator", <<"*">>), Span(getElementClass(e), e)>>

\* The callback of elements.map: the spans emitted for one token
HighlightElement(e, index) ==
    IF index = 0
    THEN <<Span("edi-segment", e)>>
    ELSE <<Span("edi-separator", <<"*">>), Span(getElementClass(e), e)>>

RECURSIVE JoinSpans(_, _)
JoinSpans(elements, i) ==
    IF i > Len(elements) THEN <<>>
    ELSE HighlightElement(elements[i], i - 1) \o JoinSpans(elements, i + 1)

\* The markup returned, as the sequence of its <span> elements
highlightSegmentHTML(seg) == JoinSpans(split(seg.raw), 1)

-----------------------------------------------------------------------------
(* Inputs *)

MaxSegs == 3

BoundedSeqs(S, n) == UNION {[1..k -> S] : k \in 0..n}

A1 == <<"A", "*", "1", "~">>

B2 == <<"B", "*", "2", "~">>

B3 == <<"B", "*", "3", "~">>

C4 == <<"C", "*", "4", "~">>

X9 == <<"X", "*", "9", "~">>

\* File contents: every list of at most MaxSegs segments drawn from two raw
\* texts, and the lists of the documented scenarios
Contents ==
    BoundedSeqs({A1, B2}, MaxSegs) \cup {<<A1, B3, C4>>, <<X9>>, <<A1, B2, A1, A1>>}

SearchTerms == {<<>>, <<"b">>, <<"A", "*", "1">>}

MaxShortLen == 4

MaxElemLen == 8

ExampleElements ==
    {<<"2", "0", "2", "4", "0", "1", "1", "5">>,
     <<"2", "4", "0", "1", "1", "5">>,
     <<"1", "2", "3", ".", "4", "5">>,
     <<"H", "C">>,
     <<"A", "c", "m", "e", " ", "H", "e", "a", "l", "t", "h", " ", "P", "l", "a", "n">>,
     <<"0", "0", "7">>,
     <<"M", "-", "1">>}

\* Elements: every short string over a digit, the dot, an uppercase and a
\* lowercase letter, every longer string without the lowercase letter, and
\* the documented examples
Elements ==
    BoundedSeqs({"1", ".", "A", "a"}, MaxShortLen)
        \cup BoundedSeqs({"1", ".", "A"}, MaxElemLen)
        \cup ExampleElements

MaxRawLen == 5

\* Raw segment texts: every string of at most MaxRawLen characters over a
\* letter, a digit and the two delimiters, and the texts of the scenarios
HighlightRaws == BoundedSeqs({"A", "1", "*", "~"}, MaxRawLen) \cup {A1, B2, B3, C4, X9}

-----------------------------------------------------------------------------
(* The comparison views as a state machine *)

InitClassifyIdle ==
    /\ element = <<>>
    /\ elementClass = None

InitHighlightIdle ==
    /\ segment = parseEDIContent(<<A1>>).segments[1]
    /\ highlighted = None

InitView ==
    /\ leftFile = None
    /\ rightFile = None
    /\ searchTerm = <<>>
    /\ showOnlyDifferences = FALSE
    /\ comparisonData = ComparisonData(None, None)
    /\ filteredComparison = FilteredComparison(ComparisonData(None, None), <<>>, FALSE)
    /\ diffStats = DiffStats(ComparisonData(None, None))
    /\ diffSegments = <<>>
    /\ currentFrame = 0

\* AnimatedEDIDiff mount: nothing animating, no node, no timer
InitAnimation ==
    /\ isAnimating = FALSE
    /\ visible = <<>>
    /\ timers = <<>>
    /\ runs = 0
    /\ phase = "idle"
    /\ shown = 0
    /\ sincePlay = 0

\* Index mount: no file uploaded, no file selected
InitIndexIdle ==
    /\ files = <<>>
    /\ selectedFiles = [left |-> None, right |-> None]
    /\ lastOp = [op |-> "none", id |-> ""]

Init ==
    InitView /\ InitClassifyIdle /\ InitHighlightIdle /\ InitAnimation /\ InitIndexIdle

\* A render with new props: the memos whose dependencies changed are
\* recomputed and the diff calculation effect runs
PropsChanged ==
    /\ comparisonData' = ComparisonData(leftFile', rightFile')
    /\ filteredComparison' =
           FilteredComparison(comparisonData', searchTerm, showOnlyDifferences)
    /\ diffStats' = DiffStats(comparisonData')
    /\ diffSegments' = DiffSegments(leftFile', rightFile')
    /\ currentFrame' =
           IF leftFile' = None \/ rightFile' = None THEN currentFrame ELSE 0
    /\ visible' = Rendered(visible, Len(diffSegments'))
    /\ timers' = Detach(timers, Len(diffSegments'))
    /\ phase' =
           IF /\ phase \in {"playing", "superseded"}
              /\ timers # <<>>
              /\ leftFile' # None /\ rightFile' # None
           THEN "superseded" ELSE "idle"
    /\ UNCHANGED <<searchTerm, showOnlyDifferences>>
    /\ UNCHANGED <<isAnimating, runs, shown, sincePlay, indexVars>>

\* handleFileSelect(file, 'left')
SelectLeft ==
    \E content \in Contents :
        /\ leftFile # Some(content)
        /\ leftFile' = Some(content)
        /\ rightFile' = rightFile
        /\ PropsChanged
        /\ UNCHANGED <<classifyVars, highlightVars>>

\* handleFileSelect(file, 'right')
SelectRight ==
    \E content \in Contents :
        /\ rightFile # Some(content)
        /\ rightFile' = Some(content)
        /\ leftFile' = leftFile
        /\ PropsChanged
        /\ UNCHANGED <<classifyVars, highlightVars>>

\* handleFileRemove of the file selected on the left
RemoveLeft ==
    /\ leftFile # None
    /\ leftFile' = None
    /\ rightFile' = rightFile
    /\ PropsChanged
    /\ UNCHANGED <<classifyVars, highlightVars>>

\* handleFileRemove of the file selected on the right
RemoveRight ==
    /\ rightFile # None
    /\ rightFile' = None
    /\ leftFile' = leftFile
    /\ PropsChanged
    /\ UNCHANGED <<classifyVars, highlightVars>>

\* onChange of the search input: setSearchTerm(e.target.value)
SetSearchTerm ==
    \E term \in SearchTerms :
        /\ term # searchTerm
        /\ searchTerm' = term
        /\ filteredComparison' =
               FilteredComparison(comparisonData, term, showOnlyDifferences)
        /\ UNCHANGED <<leftFile, rightFile, showOnlyDifferences, comparisonData,
                       diffStats, diffSegments, currentFrame>>
        /\ UNCHANGED <<classifyVars, highlightVars, animVars, indexVars>>

\* onClick of the toggle: setShowOnlyDifferences(!showOnlyDifferences)
ToggleDifferences ==
    /\ showOnlyDifferences' = ~showOnlyDifferences
    /\ filteredComparison' =
           FilteredComparison(comparisonData, searchTerm, showOnlyDifferences')
    /\ UNCHANGED <<leftFile, rightFile, searchTerm, comparisonData,
                   diffStats, diffSegments, currentFrame>>
    /\ UNCHANGED <<classifyVars, highlightVars, animVars, indexVars>>

Next ==
    \/ SelectLeft
    \/ SelectRight
    \/ RemoveLeft
    \/ RemoveRight
    \/ SetSearchTerm
    \/ ToggleDifferences

Spec == Init /\ [][Next]_vars

-----------------------------------------------------------------------------
(* getElementClass applied to one element *)

InitClassify ==
    /\ InitView
    /\ InitHighlightIdle
    /\ InitAnimation
    /\ InitIndexIdle
    /\ element \in Elements
    /\ elementClass = None

Classify ==
    /\ elementClass = None
    /\ elementClass' = Some(getElementClass(element))
    /\ UNCHANGED <<element, viewVars, highlightVars, animVars, indexVars>>

NextClassify == Classify

SpecClassify == InitClassify /\ [][NextClassify]_vars

-----------------------------------------------------------------------------
(* highlightSegmentHTML applied to one segment *)

InitHighlight ==
    /\ InitView
    /\ InitClassifyIdle
    /\ InitAnimation
    /\ InitIndexIdle
    /\ \E raw \in HighlightRaws : segment = parseEDIContent(<<raw>>).segments[1]
    /\ highlighted = None

Highlight ==
    /\ highlighted = None
    /\ highlighted' = Some(highlightSegmentHTML(segment))
    /\ UNCHANGED <<segment, viewVars, classifyVars, animVars, indexVars>>

NextHighlight == Highlight

SpecHighlight == InitHighlight /\ [][NextHighlight]_vars

-----------------------------------------------------------------------------
(* AnimatedEDIDiff with its Play and Reset buttons and the timers of         *)
(* startAnimation.  Time advances in steps of the stagger delay and only     *)
(* when no pending timer is due; a click or a change of props can be handled *)
(* before a timer that is due.                                               *)

MaxAnimSegs == 2

MaxRuns == 2

AnimContents == BoundedSeqs({A1}, MaxAnimSegs)

AnimFiles == {None} \cup {Some(content) : content \in AnimContents}

\* The header with the two buttons and the container are rendered only when
\* both files are given
ContainerMounted == leftFile # None /\ rightFile # None

\* The parent passes another leftFile
ChangeLeft ==
    \E file \in AnimFiles :
        /\ file # leftFile
        /\ leftFile' = file
        /\ rightFile' = rightFile
        /\ PropsChanged
        /\ UNCHANGED <<classifyVars, highlightVars>>

\* The parent passes another rightFile
ChangeRight ==
    \E file \in AnimFiles :
        /\ file # rightFile
        /\ rightFile' = file
        /\ leftFile' = leftFile
        /\ PropsChanged
        /\ UNCHANGED <<classifyVars, highlightVars>>

\* startAnimation on an empty diff: the early return
PlayEmpty ==
    /\ ContainerMounted
    /\ ~isAnimating
    /\ runs < MaxRuns
    /\ diffSegments = <<>>
    /\ runs' = runs + 1
    /\ phase' = "idle"
    /\ UNCHANGED <<isAnimating, visible, timers, shown, sincePlay>>
    /\ UNCHANGED <<viewVars, classifyVars, highlightVars, indexVars>>

\* startAnimation: a click on Play, enabled while isAnimating is false
Play ==
    /\ ContainerMounted
    /\ ~isAnimating
    /\ runs < MaxRuns
    /\ diffSegments # <<>>
    /\ isAnimating' = TRUE
    /\ runs' = runs + 1
    /\ timers' = timers \o RevealTimers(runs + 1, Len(visible))
    /\ phase' = "playing"
    /\ shown' = 0
    /\ sincePlay' = 0
    /\ UNCHANGED visible
    /\ UNCHANGED <<viewVars, classifyVars, highlightVars, indexVars>>

\* resetAnimation: a click on Reset
Reset ==
    /\ ContainerMounted
    /\ visible' = HideAll(visible)
    /\ currentFrame' = 0
    /\ isAnimating' = FALSE
    /\ phase' =
           IF \/ phase = "cancelled"
              \/ /\ phase = "playing"
                 /\ \E j \in 1..Len(timers) :
                        timers[j].run = runs /\ timers[j].kind = "reveal"
           THEN "cancelled" ELSE "idle"
    /\ UNCHANGED <<timers, runs, shown, sincePlay>>
    /\ UNCHANGED <<leftFile, rightFile, searchTerm, showOnlyDifferences,
                   comparisonData, filteredComparison, diffStats, diffSegments>>
    /\ UNCHANGED <<classifyVars, highlightVars, indexVars>>

\* The callback of the outer setTimeout
FireReveal ==
    \E j \in 1..Len(timers) :
        /\ IsDue(timers, j)
        /\ timers[j].kind = "reveal"
        /\ visible' = Reveal(visible, timers[j])
        /\ currentFrame' = timers[j].index
        /\ timers' =
               IF timers[j].last
               THEN Append(RemoveAt(timers, j), DoneTimer(timers[j].run, timers[j].index))
               ELSE RemoveAt(timers, j)
        /\ shown' = shown + 1
        /\ UNCHANGED <<isAnimating, runs, phase, sincePlay>>
        /\ UNCHANGED <<leftFile, rightFile, searchTerm, showOnlyDifferences,
                       comparisonData, filteredComparison, diffStats, diffSegments>>
        /\ UNCHANGED <<classifyVars, highlightVars, indexVars>>

\* The callback of the inner setTimeout
FireDone ==
    \E j \in 1..Len(timers) :
        /\ IsDue(timers, j)
        /\ timers[j].kind = "done"
        /\ isAnimating' = FALSE
        /\ timers' = RemoveAt(timers, j)
        /\ UNCHANGED <<visible, runs, phase, shown, sincePlay>>
        /\ UNCHANGED <<viewVars, classifyVars, highlightVars, indexVars>>

\* StaggerMs milliseconds pass
Tick ==
    /\ timers # <<>>
    /\ NoneDue(timers)
    /\ timers' = Elapse(timers, StaggerMs)
    /\ sincePlay' = sincePlay + StaggerMs
    /\ UNCHANGED <<isAnimating, visible, runs, phase, shown>>
    /\ UNCHANGED <<viewVars, classifyVars, highlightVars, indexVars>>

NextAnim ==
    \/ ChangeLeft
    \/ ChangeRight
    \/ PlayEmpty
    \/ Play
    \/ Reset
    \/ FireReveal
    \/ FireDone
    \/ Tick

SpecAnim == Init /\ [][NextAnim]_vars

-----------------------------------------------------------------------------
(* The Index page: uploads, selections and removals *)

MaxFiles == 3

MaxUpload == 2

FileIds == {"f1", "f2", "f3"}

\* The files FileUploader can hand over: ids may repeat between uploads
UploadableFiles == [id : FileIds, content : {<<A1>>, <<B2>>}]

Positions == {"left", "right"}

\* onFilesUploaded={handleFileUpload}
handleFileUpload ==
    \E newFiles \in BoundedSeqs(UploadableFiles, MaxUpload) :
        /\ newFiles # <<>>
        /\ Len(files) + Len(newFiles) <= MaxFiles
        /\ files' = UploadFiles(files, newFiles)
        /\ lastOp' = [op |-> "upload", id |-> ""]
        /\ UNCHANGED selectedFiles
        /\ UNCHANGED <<viewVars, classifyVars, highlightVars, animVars>>

\* onFileSelect={handleFileSelect}: the sidebar offers the listed files
handleFileSelect ==
    \E i \in 1..Len(files), position \in Positions :
        /\ selectedFiles' = SelectFile(selectedFiles, files[i], position)
        /\ lastOp' = [op |-> "select", id |-> files[i].id]
        /\ UNCHANGED files
        /\ UNCHANGED <<viewVars, classifyVars, highlightVars, animVars>>

\* onFileRemove={handleFileRemove}
handleFileRemove ==
    \E fileId \in FileIds :
        /\ files' = FilterFiles(files, fileId)
        /\ selectedFiles' = RemoveSelected(selectedFiles, fileId)
        /\ lastOp' = [op |-> "remove", id |-> fileId]
        /\ UNCHANGED <<viewVars, classifyVars, highlightVars, animVars>>

NextIndex ==
    \/ handleFileUpload
    \/ handleFileSelect
    \/ handleFileRemove

SpecIndex == Init /\ [][NextIndex]_vars

-----------------------------------------------------------------------------
(* Properties of the diff engine.  The expected values below are stated      *)
(* from the two input sequences alone.                                       *)

BothSelected == leftFile # None /\ rightFile # None

Left == IF leftFile = None THEN <<>> ELSE parseEDIContent(leftFile[1]).segments

Right == IF rightFile = None THEN <<>> ELSE parseEDIContent(rightFile[1]).segments

N == IF Len(Left) >= Len(Right) THEN Len(Left) ELSE Len(Right)

\* Presence of position i (counted from 1) in a sequence
Has(segs, i) == i <= Len(segs)

ExpectedType(i) ==
    CASE ~Has(Left, i) /\ Has(Right, i) -> "added"
      [] Has(Left, i) /\ ~Has(Right, i) -> "removed"
      [] Has(Left, i) /\ Has(Right, i) /\ Left[i].raw # Right[i].raw -> "modified"
      [] Has(Left, i) /\ Has(Right, i) /\ Left[i].raw = Right[i].raw -> "unchanged"

TypesOf(comparison) == [i \in 1..Len(comparison) |-> comparison[i].diffType]

\* C1: for every pair of segment sequences the comparison (comparisonData
\* and diffSegments) has exactly max(len(left), len(right)) lines, the i-th
\* line being the one of index i.
C1_LengthIsMax ==
    BothSelected =>
        /\ Len(comparisonData) = N
        /\ Len(diffSegments) = N
        /\ \A i \in 1..Len(comparisonData) :
              /\ comparisonData[i].leftSegment = SegAt(Left, i - 1)
              /\ comparisonData[i].rightSegment = SegAt(Right, i - 1)
        /\ \A i \in 1..Len(diffSegments) : diffSegments[i].index = i - 1

C1_Witness ==
    /\ BothSelected
    /\ Len(Left) = 2
    /\ Len(Right) = 3
    /\ Len(comparisonData) = 3
    /\ Len(diffSegments) = 3

\* C2: at every index the diffType is decided by position alone: added iff
\* only right[i] is present, removed iff only left[i] is present, modified
\* iff both are present with different raw, unchanged iff both are present
\* with equal raw.
C2_TypeByPosition ==
    BothSelected =>
        /\ Len(comparisonData) = N
        /\ \A i \in 1..Len(comparisonData) :
              comparisonData[i].diffType = ExpectedType(i)
        /\ Len(diffSegments) = N
        /\ \A i \in 1..Len(diffSegments) : diffSegments[i].type = ExpectedType(i)
        /\ (leftFile = rightFile =>
              \A i \in 1..Len(comparisonData) :
                  comparisonData[i].diffType = "unchanged")

C2_Witness ==
    /\ leftFile = Some(<<A1, B2>>)
    /\ rightFile = Some(<<A1, B3, C4>>)
    /\ TypesOf(comparisonData) = <<"unchanged", "modified", "added">>

\* C3: in every ComparisonLine the two segments are never both absent; the
\* left one is absent exactly for added, the right one exactly for removed;
\* a line number is present exactly when the segment of its side is.
C3_Presence ==
    \A i \in 1..Len(comparisonData) :
        LET line == comparisonData[i] IN
        /\ ~(line.leftSegment = None /\ line.rightSegment = None)
        /\ (line.leftSegment = None) <=> (line.diffType = "added")
        /\ (line.rightSegment = None) <=> (line.diffType = "removed")
        /\ line.diffType \in {"modified", "unchanged"} =>
              (line.leftSegment # None /\ line.rightSegment # None)
        /\ (line.leftLineNumber # None) <=> (line.leftSegment # None)
        /\ (line.rightLineNumber # None) <=> (line.rightSegment # None)

C3_Witness ==
    /\ leftFile = Some(<<X9>>)
    /\ rightFile = Some(<<>>)
    /\ Len(comparisonData) = 1
    /\ comparisonData[1].diffType = "removed"
    /\ comparisonData[1].rightSegment = None
    /\ comparisonData[1].leftSegment # None

CountOf(comparison, t) ==
    Cardinality({i \in 1..Len(comparison) : comparison[i].diffType = t})

\* C4: diffStats is the tally of diffType over the unfiltered comparison and
\* its four counters add up to max(len(left), len(right)), whatever the
\* search string and the 'differences only' toggle are.
C4_StatsSum ==
    /\ diffStats.added = CountOf(comparisonData, "added")
    /\ diffStats.removed = CountOf(comparisonData, "removed")
    /\ diffStats.modified = CountOf(comparisonData, "modified")
    /\ diffStats.unchanged = CountOf(comparisonData, "unchanged")
    /\ BothSelected =>
          /\ diffStats.added + diffStats.removed + diffStats.modified
               + diffStats.unchanged = N
          /\ AnimStats(diffSegments).total = N
          /\ AnimStats(diffSegments).added + AnimStats(diffSegments).removed
               + AnimStats(diffSegments).modified
               + AnimStats(diffSegments).unchanged = N

C4_Witness ==
    /\ BothSelected
    /\ searchTerm # <<>>
    /\ showOnlyDifferences
    /\ Len(filteredComparison) < Len(comparisonData)
    /\ diffStats.unchanged > 0
    /\ diffStats.added + diffStats.removed + diffStats.modified
         + diffStats.unchanged = N

\* The k-th element (from 1) of a set of naturals in increasing order
Kth(S, k) == CHOOSE i \in S : Cardinality({j \in S : j <= i}) = k

\* The subsequence of seq at the positions idx, in order
Project(seq, idx) == [k \in 1..Cardinality(idx) |-> seq[Kth(idx, k)]]

DiffPositions == {i \in 1..Len(comparisonData) :
                     comparisonData[i].diffType # "unchanged"}

\* C5: with no search string, 'differences only' keeps exactly the lines
\* that are not unchanged, in their order; with the toggle off the filtered
\* comparison is the full comparison.
C5_DifferencesOnly ==
    searchTerm = <<>> =>
        /\ showOnlyDifferences =>
              filteredComparison = Project(comparisonData, DiffPositions)
        /\ ~showOnlyDifferences => filteredComparison = comparisonData

C5_Witness ==
    /\ searchTerm = <<>>
    /\ showOnlyDifferences
    /\ TypesOf(comparisonData) = <<"unchanged", "modified", "unchanged", "added">>
    /\ TypesOf(filteredComparison) = <<"modified", "added">>

\* lowercase(s) is a substring of the lowercased raw or tag of a present side
SideMatches(seg, term) ==
    /\ seg # None
    /\ \/ includes(toLowerCase(seg[1].raw), toLowerCase(term))
       \/ includes(toLowerCase(seg[1].tag), toLowerCase(term))

MatchPositions ==
    {i \in 1..Len(comparisonData) :
        /\ showOnlyDifferences => comparisonData[i].diffType # "unchanged"
        /\ \/ SideMatches(comparisonData[i].leftSegment, searchTerm)
           \/ SideMatches(comparisonData[i].rightSegment, searchTerm)}

\* C6: with a non-empty search string the filtered comparison keeps, in
\* order, exactly the lines (not unchanged, if the toggle is set) where the
\* lowercased string occurs in the lowercased raw or tag of a present side.
C6_Search ==
    searchTerm # <<>> =>
        filteredComparison = Project(comparisonData, MatchPositions)

C6_Witness ==
    /\ searchTerm = <<"b">>
    /\ filteredComparison # <<>>
    /\ \E i \in 1..Len(comparisonData) :
          /\ comparisonData[i].rightSegment = None
          /\ i \notin MatchPositions
    /\ \E i \in MatchPositions :
          /\ comparisonData[i].rightSegment = None
          /\ ~includes(comparisonData[i].leftSegment[1].raw, searchTerm)
          /\ filteredComparison[1] = comparisonData[i]

\* C10: the DiffSegment list and the ComparisonLine list have the same
\* length and, position by position, the same type, index i, and tag and
\* content equal to the tag and raw of the segment present on each side,
\* absent when that segment is absent.
C10_SameContent ==
    /\ Len(diffSegments) = Len(comparisonData)
    /\ \A i \in 1..Len(diffSegments) :
          LET d == diffSegments[i]
              line == comparisonData[i]
          IN  /\ d.type = line.diffType
              /\ d.index = i - 1
              /\ ("leftTag" \in DOMAIN d) <=> (line.leftSegment # None)
              /\ ("leftContent" \in DOMAIN d) <=> (line.leftSegment # None)
              /\ ("rightTag" \in DOMAIN d) <=> (line.rightSegment # None)
              /\ ("rightContent" \in DOMAIN d) <=> (line.rightSegment # None)
              /\ line.leftSegment # None =>
                    /\ d.leftTag = line.leftSegment[1].tag
                    /\ d.leftContent = line.leftSegment[1].raw
              /\ line.rightSegment # None =>
                    /\ d.rightTag = line.rightSegment[1].tag
                    /\ d.rightContent = line.rightSegment[1].raw

C10_Witness ==
    /\ Len(diffSegments) = 3
    /\ diffSegments[1].type = "unchanged"
    /\ diffSegments[2].type = "modified"
    /\ diffSegments[3].type = "removed"
    /\ "rightTag" \notin DOMAIN diffSegments[3]
    /\ diffSegments[3].leftContent = comparisonData[3].leftSegment[1].raw

-----------------------------------------------------------------------------
(* Properties of the element classifier.  The rules are stated here on the   *)
(* characters of the element, without the matchers of the model.             *)

AllDigits(e, from, to) == \A i \in from..to : e[i] \in Digits

\* exactly 8 or exactly 6 digits
IsDateString(e) == Len(e) \in {6, 8} /\ AllDigits(e, 1, Len(e))

\* digits, optionally followed by a single '.' and digits
IsNumberString(e) ==
    \/ Len(e) >= 1 /\ AllDigits(e, 1, Len(e))
    \/ \E k \in 2..(Len(e) - 1) :
          /\ e[k] = "."
          /\ AllDigits(e, 1, k - 1)
          /\ AllDigits(e, k + 1, Len(e))

OnlyUpperOrDigits(e) == \A i \in 1..Len(e) : e[i] \in Upper \cup Digits

\* the qualifier rule as the specification words it: length <= 3 and only
\* uppercase letters and digits
IsQualifierString(e) == Len(e) <= 3 /\ OnlyUpperOrDigits(e)

Classified == elementClass # None

\* C7: the rules apply in the order date, number, qualifier, generic and the
\* first match wins: 8 or 6 digits are a date; any other digits with an
\* optional '.' and digits are a number, also when 3 characters or fewer;
\* a string matched by none of the three rules is generic.
C7_RuleOrder ==
    Classified =>
        /\ IsDateString(element) => elementClass[1] = "edi-date"
        /\ (~IsDateString(element) /\ IsNumberString(element)) =>
              elementClass[1] = "edi-number"
        /\ (~IsDateString(element) /\ ~IsNumberString(element)
              /\ ~IsQualifierString(element)) => elementClass[1] = "edi-element"
        /\ element = <<"2", "0", "2", "4", "0", "1", "1", "5">> =>
              elementClass[1] = "edi-date"
        /\ element = <<"1", "2", "3", ".", "4", "5">> => elementClass[1] = "edi-number"
        /\ element = <<"H", "C">> => elementClass[1] = "edi-qualifier"
        /\ element = <<"A", "c", "m", "e", " ", "H", "e", "a", "l", "t", "h", " ",
                       "P", "l", "a", "n">> => elementClass[1] = "edi-element"

C7_Witness ==
    /\ Classified
    /\ element = <<"1", "1", "1", "1", "1", "1", "1", "1">>
    /\ IsNumberString(element)
    /\ elementClass[1] = "edi-date"

\* C8 as stated: every element of length 0 to 3 made only of uppercase
\* letters and digits that is neither a date nor a number is a qualifier,
\* and every other element that is neither a date nor a number is generic.
C8_QualifierFromLengthZero ==
    Classified =>
        /\ (IsQualifierString(element) /\ ~IsDateString(element)
              /\ ~IsNumberString(element)) => elementClass[1] = "edi-qualifier"
        /\ (~IsQualifierString(element) /\ ~IsDateString(element)
              /\ ~IsNumberString(element)) => elementClass[1] = "edi-element"

\* C8 (amended): every element of length 1 to 3 made only of uppercase
\* letters and digits that is neither a date nor a number is a qualifier;
\* the empty element, and every other element that is neither a date nor a
\* number, is generic.
C8_QualifierFromLengthOne ==
    Classified =>
        /\ (Len(element) >= 1 /\ IsQualifierString(element)
              /\ ~IsDateString(element) /\ ~IsNumberString(element)) =>
              elementClass[1] = "edi-qualifier"
        /\ ((Len(element) = 0 \/ ~IsQualifierString(element))
              /\ ~IsDateString(element) /\ ~IsNumberString(element)) =>
              elementClass[1] = "edi-element"

C8_Witness ==
    /\ Classified
    /\ element = <<>>
    /\ elementClass[1] = "edi-element"

-----------------------------------------------------------------------------
(* Properties of the highlighter *)

Delimiters == {"*", "~"}

DelimPos == {i \in 1..Len(segment.raw) : segment.raw[i] \in Delimiters}

\* The k-th token (from 1) of segment.raw: the text between the (k-1)-th and
\* the k-th delimiter
Token(k) ==
    LET from == IF k = 1 THEN 1 ELSE Kth(DelimPos, k - 1) + 1
        to   == IF k = Cardinality(DelimPos) + 1
                THEN Len(segment.raw) ELSE Kth(DelimPos, k) - 1
    IN  SubSeq(segment.raw, from, to)

\* C9: highlightSegment splits raw at every '*' and '~' and emits the tokens
\* in order: the first as the segment identifier, every later one (empty
\* ones too) after exactly one separator marker and with the class of
\* getElementClass; there are (number of delimiters) + 1 tokens.
C9_Tokens ==
    highlighted # None =>
        LET h == highlighted[1]
            tokens == Cardinality(DelimPos) + 1
        IN  /\ Len(h) = 1 + 2 * (tokens - 1)
            /\ h[1] = Span("edi-segment", Token(1))
            /\ \A k \in 2..tokens :
                  /\ h[2 * k - 2].class = "edi-separator"
                  /\ h[2 * k - 1] = Span(getElementClass(Token(k)), Token(k))
            /\ Cardinality({i \in 1..Len(h) : h[i].class # "edi-separator"}) = tokens

C9_Witness ==
    /\ highlighted # None
    /\ segment.raw = <<"1", "*", "*", "A", "~">>
    /\ Len(highlighted[1]) = 7
    /\ highlighted[1][1] = Span("edi-segment", <<"1">>)
    /\ highlighted[1][3] = Span("edi-element", <<>>)
    /\ highlighted[1][5] = Span("edi-qualifier", <<"A">>)

-----------------------------------------------------------------------------
(* Properties of the rendering *)

\* The fixed colour vocabulary of section 6 of the specification
ColourVocabulary(type) ==
    CASE type = "added" -> {"green", "blue"}
      [] type = "removed" -> {"red"}
      [] type = "modified" -> {"amber", "yellow"}
      [] type = "unchanged" -> {"neutral", "gray"}

\* A colour is used as the vocabulary says: it is one of the type's own
\* colours and none of another type's
InVocabulary(colour, type) ==
    /\ colour \in ColourVocabulary(type)
    /\ \A other \in DiffTypes \ {type} : colour \notin ColourVocabulary(other)

\* C11: every diff line and every diff statistic of the two views is
\* rendered in the vocabulary's colour for its diffType (added green or
\* blue, removed red, modified amber or yellow, unchanged neutral or gray),
\* never in another type's colour.
C11_ColourVocabulary ==
    BothSelected =>
        /\ \A i \in 1..Len(diffSegments) :
              /\ InVocabulary(getDiffColor(diffSegments[i].type), diffSegments[i].type)
              /\ InVocabulary(getDiffIcon(diffSegments[i].type), diffSegments[i].type)
        /\ \A type \in DiffTypes :
              /\ InVocabulary(StatBadgeColor(type), type)
              /\ InVocabulary(StatLegendColor(type), type)

\* C12 as stated: when right is left with one segment inserted at position
\* k, every line at an index after k is modified.
InsertedAt(k) ==
    /\ BothSelected
    /\ Len(Right) = Len(Left) + 1
    /\ k \in 0..Len(Left)
    /\ \A i \in 1..Len(Right) :
          \/ i < k + 1 /\ Right[i].raw = Left[i].raw
          \/ i = k + 1
          \/ i > k + 1 /\ Right[i].raw = Left[i - 1].raw

C12_AllLaterModified ==
    \A k \in 0..Len(Left) :
        InsertedAt(k) =>
            \A i \in 1..Len(comparisonData) :
                (i - 1 > k) => comparisonData[i].diffType = "modified"

\* C12 (amended): when right is left with one segment inserted at position
\* k, a line at an index i after k and below len(left) is modified when
\* left[i] differs from left[i-1] and unchanged when they are equal, and the
\* last line, at index len(left), is added whenever k < len(left).
C12_LaterShifted ==
    \A k \in 0..Len(Left) :
        InsertedAt(k) =>
            /\ Len(comparisonData) = Len(Left) + 1
            /\ \A i \in 1..Len(Left) :
                  (i - 1 > k) =>
                      comparisonData[i].diffType =
                          IF Left[i].raw # Left[i - 1].raw
                          THEN "modified" ELSE "unchanged"
            /\ k < Len(Left) =>
                  comparisonData[Len(Left) + 1].diffType = "added"

C12_Witness ==
    /\ InsertedAt(1)
    /\ leftFile = Some(<<A1, A1, A1>>)
    /\ rightFile = Some(<<A1, B2, A1, A1>>)
    /\ TypesOf(comparisonData) = <<"unchanged", "modified", "unchanged", "added">>


-----------------------------------------------------------------------------
(* Properties of the reveal animation *)

\* Some entry goes from hidden to visible in the step
SomeRevealed ==
    \E i \in 1..Len(visible) : i <= Len(visible') /\ ~visible[i] /\ visible'[i]

AllVisible == \A i \in 1..Len(visible) : visible[i]

PendingRuns == {timers[j].run : j \in 1..Len(timers)}

\* C13: after Reset is pressed during a reveal animation, before the last
\* entry is shown, no entry goes from hidden to visible and currentFrame is
\* not changed, until Play is pressed again.
C13_CancelStopsTransitions ==
    [][(phase = "cancelled" /\ phase' = "cancelled")
          => (~SomeRevealed /\ currentFrame' = currentFrame)]_vars

\* C14: once a new file is selected during a reveal animation, diffSegments
\* is the positional diff of the new pair and currentFrame is 0, and from
\* then on no timer of the earlier run changes currentFrame, isAnimating or
\* the visibility of an entry.
C14_SupersededByNewFiles ==
    [][phase' = "superseded"
          => /\ diffSegments' = DiffSegments(leftFile', rightFile')
             /\ currentFrame' = 0
             /\ (phase = "superseded" /\ UNCHANGED <<leftFile, rightFile>>)
                   => (isAnimating' = isAnimating /\ visible' = visible)]_vars

\* C15: within a run of startAnimation the entries are revealed in index
\* order: entry k (from 0) goes from hidden to visible k*50 ms after Play,
\* when every entry of smaller index is visible, and currentFrame becomes k;
\* after the first reveal of the run currentFrame never decreases.
C15_RevealInIndexOrder ==
    [][(phase = "playing" /\ phase' = "playing")
          => /\ \A i \in 1..Len(visible) :
                   (~visible[i] /\ visible'[i])
                      => /\ \A j \in 1..(i - 1) : visible'[j]
                         /\ sincePlay = (i - 1) * StaggerMs
                         /\ currentFrame' = i - 1
             /\ shown >= 1 => currentFrame' >= currentFrame]_vars

\* C17: isAnimating is true whenever a timer of startAnimation is pending,
\* and at most one run has pending timers.
C17_AnimatingWhilePending ==
    /\ timers # <<>> => isAnimating
    /\ Cardinality(PendingRuns) <= 1

\* C18: after Play with no Reset and no file change since, isAnimating
\* returns to false only when every entry is visible and currentFrame is
\* n-1; Play on an empty diff leaves isAnimating false and schedules nothing.
C18_CompletesAfterLastEntry ==
    [][/\ (phase = "playing" /\ phase' = "playing" /\ isAnimating /\ ~isAnimating')
          => (AllVisible /\ currentFrame = Len(diffSegments) - 1)
       /\ (runs' = runs + 1 /\ diffSegments = <<>>)
          => (~isAnimating' /\ timers' = timers)]_vars


-----------------------------------------------------------------------------
(* Properties of the Index page *)

IdListed(fileId) == \E i \in 1..Len(files) : files[i].id = fileId

SelectedIds ==
    {selectedFiles[p][1].id : p \in {q \in Positions : selectedFiles[q] # None}}

\* C16: a file held in selectedFiles.left or .right always has an id that
\* is in the files list; removing an id that is in neither slot leaves
\* selectedFiles unchanged; an upload leaves selectedFiles unchanged and
\* keeps the files already listed, in their order, at the front of the list.
C16_SelectionListed ==
    /\ [](\A fileId \in SelectedIds : IdListed(fileId))
    /\ [][/\ (lastOp'.op = "remove" /\ lastOp'.id \notin SelectedIds)
                => selectedFiles' = selectedFiles
          /\ (lastOp'.op = "upload")
                => /\ selectedFiles' = selectedFiles
                   /\ Len(files') >= Len(files)
                   /\ SubSeq(files', 1, Len(files)) = files]_vars

\* A selected file was removed while the other slot kept its file
C16_Witness ==
    /\ lastOp.op = "remove"
    /\ ~IdListed(lastOp.id)
    /\ selectedFiles.left # None
    /\ selectedFiles.left[1].id # lastOp.id
    /\ selectedFiles.right = None
    /\ Len(files) = 2

====
